---- MODULE Spec2Model ----
(***************************************************************************)
(* Model of Scripts/aztec_decode.py: the command-line entry point main,    *)
(* decode_aztec, and decode_from_raw_modules with its module-grid          *)
(* renderer.  The zxing-cpp decoder and Pillow are external collaborators: *)
(* their outcomes (import fails, open fails, the decoder raises, the list  *)
(* of barcodes it returns) are nondeterministic choices.                   *)
(*                                                                         *)
(* Python values: None is the empty tuple and any other value v of an      *)
(* optional field is the one-element tuple <<v>>; a str is the sequence of *)
(* its characters where its characters matter (printed lines, decoded      *)
(* text) and an opaque message string otherwise.                           *)
(***************************************************************************)
EXTENDS Integers, Sequences, FiniteSets, TLC

\* ------------------------------------------------------------------ bounds
MaxBarcodes == 2      \* longest list the decoder returns
MaxBytes == 2         \* longest byte payload of a barcode
MaxSize == 2          \* largest module grid handed to the renderer

\* --------------------------------------------------------------- constants
quiet_zone == 4
module_size == 10

None == <<>>
Some(v) == <<v>>
Val(o) == o[1]

VARIABLES
  pc,        \* position of the single thread of control
  args,      \* parsed command line: image, verbose, raw, json
  pathExists,\* whether Path(args.image).exists()
  verbose,   \* the verbose parameter of the decode function being run
  img,       \* the PIL image local: None, or Some(record with mode and size)
  pixels,    \* the black pixels of the image the renderer draws into
  barcodes,  \* the local list `barcodes`
  result,    \* the result dict under construction
  returned,  \* None, or Some(result dict) handed back to the caller
  raised,    \* None, or Some(name) of an exception that left the function
  calls,     \* every zxingcpp.read_barcodes call: line, options, returned list
  stdout,    \* what was printed on stdout, in order
  stderr,    \* what was printed on stderr, in order
  exitCode,  \* None while running, Some(code) once the process ended
  exitVia,   \* "none", "sys.exit" (a sys.exit call of main) or "uncaught"
  modules,   \* the grid given to decode_from_raw_modules
  loop,      \* the renderer's loop counters y, x, dy, dx
  lastWrite  \* None, or Some(<<x, y>>) of the latest pixels[x, y] assignment

vars == <<pc, args, pathExists, verbose, img, pixels, barcodes, result, returned, raised, calls,
          stdout, stderr, exitCode, exitVia, modules, loop, lastWrite>>

\* ------------------------------------------------------- external objects
\* Byte payloads: the prefixes of a fixed payload with values below and
\* above 16
Payload == <<10, 255, 0, 171>>

RECURSIVE SeqsUpTo(_, _)
SeqsUpTo(S, n) ==
  IF n = 0 THEN {<<>>}
  ELSE LET shorter == SeqsUpTo(S, n - 1)
       IN shorter \cup {Append(s, e) : s \in {t \in shorter : Len(t) = n - 1}, e \in S}

ByteSeqs == {SubSeq(Payload, 1, k) : k \in 0..MaxBytes}

Position == [top_left |-> <<1, 1>>, top_right |-> <<9, 1>>,
             bottom_right |-> <<9, 9>>, bottom_left |-> <<1, 9>>]

\* A barcode object of the decoder.  bytes, raw_bytes and position are
\* attributes the code probes with hasattr: None stands for a missing one.
Barcode(f, t, b, r, p) ==
  [format |-> f, text |-> t, bytes |-> b, raw_bytes |-> r, position |-> p]

Barcodes ==
  {Barcode("Aztec", <<"h", "i">>, Some(bs), None, None) : bs \in ByteSeqs}
  \cup {Barcode("Aztec", <<"h", "i">>, None, Some(<<171>>), None),
        Barcode("Aztec", <<"h", "i">>, None, None, None),
        Barcode("Aztec", <<"h", "i">>, Some(<<10>>), None, Some(Position)),
        Barcode("Aztec", <<"o", "k">>, Some(<<0, 171>>), Some(<<255>>), None),
        Barcode("QRCode", <<"q", "r">>, Some(<<10>>), None, Some(Position))}

BarcodeLists == SeqsUpTo(Barcodes, MaxBarcodes)

\* zxingcpp.read_barcodes(img[, reader_options]): what a call may do, raise
\* or return a list.  Without options every format is enabled; with options
\* only barcodes of the selected formats are reported.
read_barcodes(options) ==
  {[ok |-> FALSE, list |-> <<>>]} \cup
  {[ok |-> TRUE, list |-> l] :
     l \in IF options = None THEN BarcodeLists
           ELSE {m \in BarcodeLists :
                   \A i \in 1..Len(m) : m[i].format \in Val(options).formats}}

\* ------------------------------------------------------------ pure helpers
EmptyResult ==
  [success |-> FALSE, text |-> None, bytes |-> None, format |-> None,
   position |-> None, error |-> None]

\* str(barcode.format)
StrFormat(f) == <<"BarcodeFormat", f>>

\* A plausible slip: the list left unfiltered
FilterNothing(bs) == bs

\* [b for b in barcodes if b.format == zxingcpp.BarcodeFormat.Aztec]
FilterAztec(bs) == SelectSeq(bs, LAMBDA b : b.format = "Aztec")

HexDigit == <<"0", "1", "2", "3", "4", "5", "6", "7", "8", "9",
              "a", "b", "c", "d", "e", "f">>

RECURSIVE HexOf(_)
HexOf(n) ==
  IF n < 16 THEN <<HexDigit[n + 1]>>
  ELSE HexOf(n \div 16) \o <<HexDigit[(n % 16) + 1]>>

RECURSIVE ZeroPad(_, _)
ZeroPad(s, w) == IF Len(s) >= w THEN s ELSE ZeroPad(<<"0">> \o s, w)

\* A plausible slip: f"{b:x}", no zero padding
FormatNoPad(b) == HexOf(b)

\* f"{b:02x}"
Format02x(b) == ZeroPad(HexOf(b), 2)

\* sep.join(parts)
RECURSIVE Join(_, _)
Join(sep, parts) ==
  IF Len(parts) = 0 THEN <<>>
  ELSE IF Len(parts) = 1 THEN parts[1]
  ELSE parts[1] \o sep \o Join(sep, Tail(parts))

\* print(a, b, ...) : the arguments separated by one space, as one line
PrintLine(parts) == [kind |-> "line", chars |-> Join(<<" ">>, parts), keys |-> {}]

\* print(json.dumps(result, indent=2)) : one object with every key of the dict
PrintJson(d) == [kind |-> "json", chars |-> <<>>, keys |-> DOMAIN d]

\* bool(result["bytes"]) : None and the empty list are both falsy
Truthy(o) == o /= None /\ Len(Val(o)) > 0

\* ------------------------------------------------------------------ main
Paths == {"a.png", "b.png"}
Modes == {"RGB", "L", "RGBA"}
FileImageSize == <<64, 64>>

NoLoop == [y |-> 0, x |-> 0, dy |-> 0, dx |-> 0]

Init ==
  /\ pc = "main"
  /\ args \in [image : Paths, verbose : BOOLEAN, raw : BOOLEAN, json : BOOLEAN]
  /\ pathExists \in BOOLEAN
  /\ verbose = FALSE
  /\ img = None
  /\ pixels = {}
  /\ barcodes = <<>>
  /\ result = EmptyResult
  /\ returned = None
  /\ raised = None
  /\ calls = <<>>
  /\ stdout = <<>>
  /\ stderr = <<>>
  /\ exitCode = None
  /\ exitVia = "none"
  /\ modules = <<>>
  /\ loop = NoLoop
  /\ lastWrite = None

\* sys.exit(code) in main
SysExit(code) ==
  /\ pc' = "exited"
  /\ exitCode' = Some(code)
  /\ exitVia' = "sys.exit"

\* An exception nothing catches: the interpreter prints the traceback on
\* stderr and the process ends with status 1.
Uncaught(exc) ==
  /\ pc' = "exited"
  /\ raised' = Some(exc)
  /\ exitCode' = Some(1)
  /\ exitVia' = "uncaught"
  /\ stderr' = Append(stderr, <<"Traceback", exc>>)

\* `return result` of decode_aztec, back in main: the frame's locals img
\* and barcodes are gone, the dict is main's `result`
Return(r) ==
  /\ returned' = Some(r)
  /\ pc' = "main_output"
  /\ img' = None
  /\ barcodes' = <<>>

\* stderr after an optional verbose diagnostic
Diag(err, on, msgs) == IF on THEN err \o msgs ELSE err

\* A plausible slip: the existence test inverted
ImageMissingInverted == pathExists

\* not Path(args.image).exists()
ImageMissing == ~pathExists

\* main: the existence check, then the call of decode_aztec
MainCheckImage ==
  /\ pc = "main"
  /\ IF ImageMissing
       THEN /\ stderr' = Append(stderr, <<"Error:", "File not found:", args.image>>)
            /\ SysExit(1)
            /\ UNCHANGED verbose
       ELSE /\ pc' = "decode_aztec"
            /\ verbose' = args.verbose
            /\ UNCHANGED <<stderr, exitCode, exitVia>>
  /\ UNCHANGED <<args, pathExists, img, pixels, barcodes, result, returned,
                 raised, calls, stdout, modules, loop, lastWrite>>

\* decode_aztec: the result dict and `import zxingcpp`
ImportZxing ==
  /\ pc = "decode_aztec"
  /\ \E installed \in BOOLEAN :
       IF installed
         THEN /\ result' = EmptyResult
              /\ pc' = "import_pil"
              /\ UNCHANGED <<returned, img, barcodes>>
         ELSE /\ result' = [EmptyResult EXCEPT !.error = Some("zxing-cpp not installed")]
              /\ Return(result')
  /\ UNCHANGED <<args, pathExists, verbose, pixels, raised, calls,
                 stdout, stderr, exitCode, exitVia, modules, loop, lastWrite>>

\* decode_aztec: `from PIL import Image`
ImportPIL ==
  /\ pc = "import_pil"
  /\ \E installed \in BOOLEAN :
       IF installed
         THEN /\ pc' = "load"
              /\ UNCHANGED <<result, returned, img, barcodes>>
         ELSE /\ result' = [result EXCEPT !.error = Some("Pillow not installed")]
              /\ Return(result')
  /\ UNCHANGED <<args, pathExists, verbose, pixels, raised, calls,
                 stdout, stderr, exitCode, exitVia, modules, loop, lastWrite>>

\* decode_aztec: Image.open(image_path)
LoadImage ==
  /\ pc = "load"
  /\ \E ok \in BOOLEAN, mode \in Modes :
       IF ok
         THEN /\ img' = Some([mode |-> mode, size |-> FileImageSize])
              /\ stderr' = Diag(stderr, verbose, << <<"Image loaded", mode>> >>)
              /\ pc' = "convert"
              /\ UNCHANGED <<result, returned, barcodes>>
         ELSE /\ result' = [result EXCEPT !.error = Some("Failed to load image")]
              /\ Return(result')
              /\ UNCHANGED stderr
  /\ UNCHANGED <<args, pathExists, verbose, pixels, raised, calls,
                 stdout, exitCode, exitVia, modules, loop, lastWrite>>

\* decode_aztec: conversion to RGB unless the mode is RGB or L
ConvertImage ==
  /\ pc = "convert"
  /\ LET m == Val(img).mode
         conv == m \notin {"RGB", "L"}
     IN /\ img' = IF conv THEN Some([Val(img) EXCEPT !.mode = "RGB"]) ELSE img
        /\ stderr' = Diag(Diag(stderr, verbose /\ conv, << <<"Converted to RGB">> >>),
                          verbose, << <<"Scanning for Aztec codes...">> >>)
  /\ pc' = "read"
  /\ UNCHANGED <<args, pathExists, verbose, pixels, barcodes, result, returned,
                 raised, calls, stdout, exitCode, exitVia, modules, loop, lastWrite>>

\* One entry of the log of decoder calls
Call(line, options, outcome) ==
  [line |-> line, options |-> options, raised |-> ~outcome.ok,
   returned |-> outcome.list]

\* decode_aztec: zxingcpp.read_barcodes(img), no reader options passed
ReadBarcodes ==
  /\ pc = "read"
  /\ \E outcome \in read_barcodes(None) :
       /\ calls' = Append(calls, Call(80, None, outcome))
       /\ IF outcome.ok
            THEN /\ barcodes' = outcome.list
                 /\ pc' = "filter"
                 /\ UNCHANGED <<result, returned, img>>
            ELSE /\ result' = [result EXCEPT !.error = Some("zxing-cpp read error")]
                 /\ Return(result')
  /\ UNCHANGED <<args, pathExists, verbose, pixels, raised, stdout, stderr,
                 exitCode, exitVia, modules, loop, lastWrite>>

\* decode_aztec: keep the Aztec barcodes only
FilterBarcodes ==
  /\ pc = "filter"
  /\ barcodes' = FilterAztec(barcodes)
  /\ pc' = "check"
  /\ UNCHANGED <<args, pathExists, verbose, img, pixels, result, returned, raised,
                 calls, stdout, stderr, exitCode, exitVia, modules, loop, lastWrite>>

\* decode_aztec: `if not barcodes`.  With verbose the diagnostic branch
\* assigns to reader_options.formats; decode_aztec binds no such name, so
\* the statement raises NameError before the second read_barcodes call and
\* nothing in decode_aztec or main catches it.
NoBarcode ==
  /\ pc = "check"
  /\ Len(barcodes) = 0
  /\ result' = [result EXCEPT !.error = Some("No Aztec barcode detected in image")]
  /\ IF verbose
       THEN /\ Uncaught("NameError")
            /\ UNCHANGED <<returned, img, barcodes>>
       ELSE /\ Return(result')
            /\ UNCHANGED <<raised, stderr, exitCode, exitVia>>
  /\ UNCHANGED <<args, pathExists, verbose, pixels, calls, stdout,
                 modules, loop, lastWrite>>

\* decode_aztec: the fields taken from the first remaining barcode
AztecResult(r, barcode) ==
  [r EXCEPT !.success = TRUE,
            !.format = Some(StrFormat(barcode.format)),
            !.text = Some(barcode.text),
            !.bytes = IF barcode.bytes /= None THEN barcode.bytes
                      ELSE IF barcode.raw_bytes /= None THEN barcode.raw_bytes
                      ELSE r.bytes,
            !.position = IF barcode.position /= None THEN barcode.position
                         ELSE r.position]

UseFirst ==
  /\ pc = "check"
  /\ Len(barcodes) > 0
  /\ LET barcode == barcodes[1]
     IN /\ stderr' = Diag(stderr, verbose,
                          << <<"Found barcodes", Len(barcodes)>>,
                             <<"Format", barcode.format>>, <<"Content type">> >>)
        /\ result' = AztecResult(result, barcode)
  /\ Return(result')
  /\ UNCHANGED <<args, pathExists, verbose, pixels, raised, calls,
                 stdout, exitCode, exitVia, modules, loop, lastWrite>>

\* main: --json
MainJson ==
  /\ pc = "main_output"
  /\ args.json
  /\ stdout' = Append(stdout, PrintJson(Val(returned)))
  /\ SysExit(IF Val(returned).success THEN 0 ELSE 1)
  /\ UNCHANGED <<args, pathExists, verbose, img, pixels, barcodes, result, returned,
                 raised, calls, stderr, modules, loop, lastWrite>>

\* "Bytes:", " ".join(f"{b:02x}" for b in bs)
BytesLine(bs) ==
  PrintLine(<< <<"B", "y", "t", "e", "s", ":">>,
               Join(<<" ">>, [i \in 1..Len(bs) |-> Format02x(bs[i])]) >>)

\* main: plain output
MainPlain ==
  /\ pc = "main_output"
  /\ ~args.json
  /\ LET r == Val(returned)
     IN IF r.success
          THEN /\ stdout' = Append(stdout,
                              IF args.raw /\ Truthy(r.bytes)
                                THEN BytesLine(Val(r.bytes))
                                ELSE PrintLine(<<Val(r.text)>>))
               /\ SysExit(0)
               /\ UNCHANGED stderr
          ELSE /\ stderr' = Append(stderr, <<"Error: ", Val(r.error)>>)
               /\ SysExit(1)
               /\ UNCHANGED stdout
  /\ UNCHANGED <<args, pathExists, verbose, img, pixels, barcodes, result, returned,
                 raised, calls, modules, loop, lastWrite>>

Next ==
  \/ MainCheckImage
  \/ ImportZxing
  \/ ImportPIL
  \/ LoadImage
  \/ ConvertImage
  \/ ReadBarcodes
  \/ FilterBarcodes
  \/ NoBarcode
  \/ UseFirst
  \/ MainJson
  \/ MainPlain

Spec == Init /\ [][Next]_vars

\* ------------------------------------------------ decode_from_raw_modules
\* The square grids of the bound: n rows of n booleans, n = 0 included
Grids == UNION {[1..n -> [1..n -> BOOLEAN]] : n \in 0..MaxSize}

InitRaw ==
  /\ pc = "raw_modules"
  /\ modules \in Grids
  /\ verbose \in BOOLEAN
  /\ args = [image |-> "", verbose |-> FALSE, raw |-> FALSE, json |-> FALSE]
  /\ pathExists = FALSE
  /\ img = None
  /\ pixels = {}
  /\ barcodes = <<>>
  /\ result = EmptyResult
  /\ returned = None
  /\ raised = None
  /\ calls = <<>>
  /\ stdout = <<>>
  /\ stderr = <<>>
  /\ exitCode = None
  /\ exitVia = "none"
  /\ loop = NoLoop
  /\ lastWrite = None

\* `return result` of decode_from_raw_modules: the caller has the dict, the
\* frame with modules, img, pixels, the loop counters and barcodes is gone
RawReturn(r) ==
  /\ returned' = Some(r)
  /\ pc' = "raw_returned"
  /\ modules' = <<>>
  /\ img' = None
  /\ pixels' = {}
  /\ loop' = NoLoop
  /\ barcodes' = <<>>

\* decode_from_raw_modules: the result dict and `import zxingcpp`
RawImportZxing ==
  /\ pc = "raw_modules"
  /\ \E installed \in BOOLEAN :
       IF installed
         THEN /\ result' = EmptyResult
              /\ pc' = "raw_import_pil"
              /\ UNCHANGED <<returned, modules, img, pixels, loop, barcodes>>
         ELSE /\ result' = [EmptyResult EXCEPT !.error = Some("zxing-cpp not installed")]
              /\ RawReturn(result')
  /\ UNCHANGED <<args, pathExists, verbose, raised, calls,
                 stdout, stderr, exitCode, exitVia, lastWrite>>

\* decode_from_raw_modules: `from PIL import Image`
RawImportPIL ==
  /\ pc = "raw_import_pil"
  /\ \E installed \in BOOLEAN :
       IF installed
         THEN /\ pc' = "raw_new_image"
              /\ UNCHANGED <<result, returned, modules, img, pixels, loop, barcodes>>
         ELSE /\ result' = [result EXCEPT !.error = Some("Pillow not installed")]
              /\ RawReturn(result')
  /\ UNCHANGED <<args, pathExists, verbose, raised, calls,
                 stdout, stderr, exitCode, exitVia, lastWrite>>

\* size = len(modules)
Size == Len(modules)

\* A plausible slip: the quiet zone left out of the image size
ImgSizeNoQuietZone(size) == size * module_size

\* img_size = (size + 2 * quiet_zone) * module_size
ImgSize(size) == (size + 2 * quiet_zone) * module_size

\* A plausible slip: row and column exchanged
ModuleOriginTransposed(x, y) ==
  <<(quiet_zone + y) * module_size, (quiet_zone + x) * module_size>>

\* px, py = the top-left pixel of the module in column x of row y
ModuleOrigin(x, y) == <<(quiet_zone + x) * module_size, (quiet_zone + y) * module_size>>

\* Image.new('RGB', (img_size, img_size), 'white'); pixels = img.load()
NewImage ==
  /\ pc = "raw_new_image"
  /\ img' = Some([mode |-> "RGB", size |-> <<ImgSize(Size), ImgSize(Size)>>])
  /\ pixels' = {}
  /\ loop' = NoLoop
  /\ pc' = "render"
  /\ UNCHANGED <<args, pathExists, verbose, barcodes, result, returned, raised,
                 calls, stdout, stderr, exitCode, exitVia, modules, lastWrite>>

\* modules[y][x], Python indices from 0
Dark(x, y) == modules[y + 1][x + 1]

\* for x in range(size): exhausted, next y
RenderRowEnd ==
  /\ pc = "render"
  /\ loop.y < Size
  /\ loop.x >= Size
  /\ loop' = [loop EXCEPT !.y = loop.y + 1, !.x = 0]
  /\ UNCHANGED <<pc, args, pathExists, verbose, img, pixels, barcodes, result,
                 returned, raised, calls, stdout, stderr, exitCode, exitVia,
                 modules, lastWrite>>

\* `if modules[y][x]` false: next x
RenderLight ==
  /\ pc = "render"
  /\ loop.y < Size
  /\ loop.x < Size
  /\ ~Dark(loop.x, loop.y)
  /\ loop' = [loop EXCEPT !.x = loop.x + 1]
  /\ UNCHANGED <<pc, args, pathExists, verbose, img, pixels, barcodes, result,
                 returned, raised, calls, stdout, stderr, exitCode, exitVia,
                 modules, lastWrite>>

\* pixels[x, y] = (0, 0, 0) on a PixelAccess of the given size: a negative
\* index counts from the far edge, an index outside the image is an IndexError
InImage(size, c) == 0 <= c /\ c < size
Wrap(size, c) == IF c < 0 THEN size + c ELSE c

\* pixels[px + dx, py + dy] = (0, 0, 0), then the next dx (or the next dy)
WritePixel ==
  /\ pc = "render"
  /\ loop.y < Size
  /\ loop.x < Size
  /\ Dark(loop.x, loop.y)
  /\ loop.dy < module_size
  /\ LET o == ModuleOrigin(loop.x, loop.y)
         wx == o[1] + loop.dx
         wy == o[2] + loop.dy
         w == Val(img).size[1]
         h == Val(img).size[2]
     IN /\ lastWrite' = Some(<<wx, wy>>)
        /\ IF InImage(w, Wrap(w, wx)) /\ InImage(h, Wrap(h, wy))
             THEN /\ pixels' = pixels \cup {<<Wrap(w, wx), Wrap(h, wy)>>}
                  /\ loop' = IF loop.dx + 1 < module_size
                               THEN [loop EXCEPT !.dx = loop.dx + 1]
                               ELSE [loop EXCEPT !.dx = 0, !.dy = loop.dy + 1]
                  /\ UNCHANGED <<pc, raised>>
             ELSE /\ raised' = Some("IndexError")
                  /\ pc' = "raw_raised"
                  /\ UNCHANGED <<pixels, loop>>
  /\ UNCHANGED <<args, pathExists, verbose, img, barcodes, result, returned, calls,
                 stdout, stderr, exitCode, exitVia, modules>>

\* for dy in range(module_size): exhausted, next x
RenderBlockEnd ==
  /\ pc = "render"
  /\ loop.y < Size
  /\ loop.x < Size
  /\ Dark(loop.x, loop.y)
  /\ loop.dy >= module_size
  /\ loop' = [loop EXCEPT !.x = loop.x + 1, !.dy = 0, !.dx = 0]
  /\ UNCHANGED <<pc, args, pathExists, verbose, img, pixels, barcodes, result,
                 returned, raised, calls, stdout, stderr, exitCode, exitVia,
                 modules, lastWrite>>

\* for y in range(size): exhausted; the verbose line
RenderDone ==
  /\ pc = "render"
  /\ loop.y >= Size
  /\ stderr' = Diag(stderr, verbose, << <<"Rendered", Size, Val(img).size[1]>> >>)
  /\ pc' = "raw_read"
  /\ UNCHANGED <<args, pathExists, verbose, img, pixels, barcodes, result, returned,
                 raised, calls, stdout, exitCode, exitVia, modules, loop, lastWrite>>

\* reader_options of decode_from_raw_modules
AztecOptions == Some([formats |-> {"Aztec"}, try_harder |-> TRUE])

\* decode_from_raw_modules: the fields taken from barcodes[0]
RawResult(r, barcode) ==
  [r EXCEPT !.success = TRUE,
            !.format = Some(StrFormat(barcode.format)),
            !.text = Some(barcode.text),
            !.bytes = IF barcode.bytes /= None THEN barcode.bytes ELSE r.bytes]

\* decode_from_raw_modules: zxingcpp.read_barcodes(img, reader_options),
\* then one of the three return statements that follow it
RawDecode ==
  /\ pc = "raw_read"
  /\ \E outcome \in read_barcodes(AztecOptions) :
       /\ calls' = Append(calls, Call(195, AztecOptions, outcome))
       /\ result' = IF ~outcome.ok
                      THEN [result EXCEPT !.error = Some("Decode error")]
                    ELSE IF Len(outcome.list) = 0
                      THEN [result EXCEPT !.error = Some("No Aztec barcode detected")]
                    ELSE RawResult(result, outcome.list[1])
  /\ RawReturn(result')
  /\ UNCHANGED <<args, pathExists, verbose, raised, stdout, stderr,
                 exitCode, exitVia, lastWrite>>

NextRaw ==
  \/ RawImportZxing
  \/ RawImportPIL
  \/ NewImage
  \/ RenderRowEnd
  \/ RenderLight
  \/ WritePixel
  \/ RenderBlockEnd
  \/ RenderDone
  \/ RawDecode

SpecRaw == InitRaw /\ [][NextRaw]_vars

\* Both entry points: the script run from the command line, and
\* decode_from_raw_modules called as a library function
InitAll == Init \/ InitRaw

NextAll == Next \/ NextRaw

SpecAll == InitAll /\ [][NextAll]_vars

\* ---------------------------------------------------------------- claims
ResultKeys == {"success", "text", "bytes", "format", "position", "error"}

\* decode_aztec was called and control has left it
DecodeLeft == pathExists /\ pc \in {"main_output", "exited"}

\* The decoder was called, did not raise, and reported an Aztec barcode
AztecReported ==
  /\ Len(calls) > 0
  /\ ~calls[Len(calls)].raised
  /\ \E i \in 1..Len(calls[Len(calls)].returned) :
       calls[Len(calls)].returned[i].format = "Aztec"

\* The decoder was called, did not raise, and reported no Aztec barcode
NoAztecReported ==
  /\ Len(calls) > 0
  /\ ~calls[Len(calls)].raised
  /\ \A i \in 1..Len(calls[Len(calls)].returned) :
       calls[Len(calls)].returned[i].format /= "Aztec"

\* The first Aztec barcode of the list the decoder returned
FirstAztec ==
  LET l == calls[Len(calls)].returned
      k == CHOOSE i \in 1..Len(l) :
             /\ l[i].format = "Aztec"
             /\ \A j \in 1..(i - 1) : l[j].format /= "Aztec"
  IN l[k]

\* C1: every run with --json and an existing image path ends with exactly
\* one JSON object on stdout, holding all six keys, whatever the other flags
\* and whatever the outcome of decoding.
C1_JsonAlwaysEmitted ==
  (pc = "exited" /\ args.json /\ pathExists) =>
    /\ Len(stdout) = 1
    /\ stdout[1].kind = "json"
    /\ stdout[1].keys = ResultKeys

\* C2: no error escapes decode_aztec: once control has left it, no exception
\* was raised, a result record was returned, and on every failure that record
\* has success false and a non-null error.
C2_NoErrorEscapes ==
  DecodeLeft =>
    /\ raised = None
    /\ returned /= None
    /\ (~AztecReported => (~Val(returned).success /\ Val(returned).error /= None))

\* C3: the process ends through a sys.exit call of main, with code 0 exactly
\* when an Aztec barcode was decoded and code 1 otherwise.
C3_ExitCode ==
  pc = "exited" =>
    /\ exitVia = "sys.exit"
    /\ exitCode = Some(IF returned /= None /\ Val(returned).success THEN 0 ELSE 1)

\* C4: with a missing image path main exits with code 1 after one stderr
\* message holding "File not found" and the path; decode_aztec is never
\* entered, the decoder never called, and stdout stays empty, for all flags.
C4_MissingFile ==
  ~pathExists =>
    /\ pc \in {"main", "exited"}
    /\ stdout = <<>>
    /\ returned = None
    /\ calls = <<>>
    /\ pc = "exited" =>
         /\ exitCode = Some(1)
         /\ exitVia = "sys.exit"
         /\ Len(stderr) = 1
         /\ \E i \in 1..Len(stderr[1]) : stderr[1][i] = "File not found:"
         /\ \E i \in 1..Len(stderr[1]) : stderr[1][i] = args.image

C4_Witness ==
  /\ pc = "exited"
  /\ ~pathExists
  /\ args.json
  /\ args.verbose
  /\ exitCode = Some(1)

\* C5: when the image loads and the decoder reports no Aztec barcode,
\* decode_aztec returns success false, a non-null error, and text, bytes,
\* format and position null, for verbose false and true.
C5_NoBarcodeResult ==
  (DecodeLeft /\ NoAztecReported) =>
    /\ returned /= None
    /\ ~Val(returned).success
    /\ Val(returned).error /= None
    /\ Val(returned).text = None
    /\ Val(returned).bytes = None
    /\ Val(returned).format = None
    /\ Val(returned).position = None

\* The line "Bytes:" followed by each byte as two lowercase hex digits,
\* single spaces between them
ExpectedHexLine(bs) ==
  <<"B", "y", "t", "e", "s", ":", " ">> \o
  [k \in 1..(3 * Len(bs) - 1) |->
     IF k % 3 = 1 THEN HexDigit[(bs[(k + 2) \div 3] \div 16) + 1]
     ELSE IF k % 3 = 2 THEN HexDigit[(bs[(k + 1) \div 3] % 16) + 1]
     ELSE " "]

RawSuccess ==
  /\ pc = "exited"
  /\ args.raw
  /\ ~args.json
  /\ returned /= None
  /\ Val(returned).success

BytesOf(r) == IF r.bytes = None THEN <<>> ELSE Val(r.bytes)

\* C6 (as claimed): with --raw, without --json, every successful decode,
\* an empty or absent byte list included, prints the "Bytes:" hex line and
\* not the decoded text.
C6_RawAlwaysHex ==
  RawSuccess =>
    /\ Len(stdout) = 1
    /\ stdout[1].kind = "line"
    /\ stdout[1].chars = ExpectedHexLine(BytesOf(Val(returned)))

\* C6 (amended): with --raw, without --json, a successful decode with a
\* non-empty byte list prints the "Bytes:" hex line and not the text; with
\* an empty or absent byte list it prints the decoded text.
C6_RawHexWhenBytes ==
  RawSuccess =>
    /\ Len(stdout) = 1
    /\ stdout[1].kind = "line"
    /\ stdout[1].chars =
         IF Len(BytesOf(Val(returned))) > 0
           THEN ExpectedHexLine(BytesOf(Val(returned)))
           ELSE Val(Val(returned).text)

C6_Witness ==
  /\ RawSuccess
  /\ Val(returned).bytes = Some(<<10, 255>>)
  /\ Len(stdout) = 1

\* C7: the rendered image is square with side (n + 2*4) * 10 for a grid of
\* n rows, and every pixel write has both coordinates in [0, (n + 8) * 10).
C7_ImageSize ==
  /\ img /= None =>
       Val(img).size = <<(Len(modules) + 2 * 4) * 10, (Len(modules) + 2 * 4) * 10>>
  /\ lastWrite /= None =>
       /\ 0 <= Val(lastWrite)[1] /\ Val(lastWrite)[1] < (Len(modules) + 8) * 10
       /\ 0 <= Val(lastWrite)[2] /\ Val(lastWrite)[2] < (Len(modules) + 8) * 10
  /\ raised = None

C7_Witness ==
  /\ pc = "raw_read"
  /\ Len(modules) >= 2
  /\ lastWrite = Some(<<10 * Len(modules) + 39, 10 * Len(modules) + 39>>)

\* C8: every read_barcodes call passes reader options that restrict the
\* formats to Aztec and set try_harder.
C8_AlwaysAztecOptions ==
  \A i \in 1..Len(calls) :
    /\ calls[i].options /= None
    /\ Val(calls[i].options).formats = {"Aztec"}
    /\ Val(calls[i].options).try_harder

\* C9: a returned record with success true has a null error and its format
\* and text come from the first Aztec barcode the decoder reported; one with
\* success false has a non-null error and null text, bytes, format, position.
C9_ResultShape ==
  returned /= None =>
    LET r == Val(returned)
    IN /\ r.success =>
            /\ r.error = None
            /\ AztecReported
            /\ r.format = Some(<<"BarcodeFormat", "Aztec">>)
            /\ r.text = Some(FirstAztec.text)
       /\ ~r.success =>
            /\ r.error /= None
            /\ r.text = None
            /\ r.bytes = None
            /\ r.format = None
            /\ r.position = None

C9_Witness ==
  /\ pc = "main_output"
  /\ returned /= None
  /\ Val(returned).success
  /\ Len(calls[1].returned) = 2
  /\ calls[1].returned[1].format = "QRCode"
  /\ Val(returned).text = Some(<<"o", "k">>)

\* C10: once rendering is over, pixel (px, py) is black exactly when it lies
\* in the n x n module area starting at 40 and the module in row
\* (py - 40) div 10, column (px - 40) div 10 is dark; all the rest is white.
C10_PixelMap ==
  pc = "raw_read" =>
    LET n == Len(modules)
        side == 10 * n + 80
    IN /\ pixels \subseteq (0..(side - 1)) \X (0..(side - 1))
       /\ \A px \in 0..(side - 1), py \in 0..(side - 1) :
            (<<px, py>> \in pixels) <=>
              /\ 40 <= px /\ px < 40 + 10 * n
              /\ 40 <= py /\ py < 40 + 10 * n
              /\ modules[((py - 40) \div 10) + 1][((px - 40) \div 10) + 1]

C10_Witness ==
  /\ pc = "raw_read"
  /\ Len(modules) >= 2
  /\ modules[1][2]
  /\ ~modules[2][1]
  /\ <<50, 40>> \in pixels
  /\ <<40, 50>> \notin pixels

====
